---- MODULE Spec2Model ----
(***************************************************************************)
(* mdserve (src/main.rs): a directory served over HTTP, markdown files     *)
(* rendered to HTML on request and cached under (path, modification time). *)
(*                                                                         *)
(* The model follows one GET request through `convert` (path resolution),  *)
(* `process_file` (open, stat, lock, lookup, read, render, evict, insert)  *)
(* and the `.or(dir)` fallback of `serve`, with several requests running   *)
(* concurrently and the files of the served directory changing under them. *)
(***************************************************************************)
EXTENDS Integers, Sequences, FiniteSets, TLC

\* Number of requests in flight together, and the last tick of the file
\* system clock (every change of the directory takes one tick).
NumReq == 2
MaxTime == 1

Reqs == 1..NumReq

(***************************************************************************)
(* Paths.  A path is the sequence of its components below base_dir; a      *)
(* component is a file stem and an extension (NoExt when PathBuf gives     *)
(* extension() = None).                                                    *)
(***************************************************************************)
NoExt == "<none>"
Seg(stem, ext) == [stem |-> stem, ext |-> ext]

BaseDir == << >>
IndexMd == <<Seg("index", "md")>>
Foo == <<Seg("foo", NoExt)>>
FooMd == <<Seg("foo", "md")>>
FooTxt == <<Seg("foo", "txt")>>
FooIndexMd == <<Seg("foo", NoExt), Seg("index", "md")>>

\* The files the model's directory can hold, and the markdown ones among them.
Nodes == {IndexMd, Foo, FooMd, FooTxt, FooIndexMd}
MdNodes == {IndexMd, FooMd, FooIndexMd}

\* GET /, /foo, /foo.md, /foo.txt: FullPath with its leading '/' stripped
\* (req_path_str.get(1..)) and split into components by PathBuf::from.
ReqPaths == {BaseDir, Foo, FooMd, FooTxt}

\* Value of a path local that is not set yet.
NoPath == <<Seg("?", NoExt)>>

VARIABLES
    fs,          \* the served directory: node -> [kind, ver, valid, modified]
    now,         \* file system clock
    cache,       \* HashMap<CacheKey, String> behind the Mutex
    lock,        \* owner of the tokio Mutex, Unlocked when free
    pc,          \* per request: where it stands
    reqPath,     \* per request: the requested path
    target,      \* per request: the path handed to process_file (and its open File)
    ckModified,  \* per request: ck.modified, from the stat
    input,       \* per request: the text read from the file
    output,      \* per request: the rendered HTML
    rejection,   \* per request: the Rejection convert returned, "none" if none
    response,    \* per request: the response the client receives
    cause,       \* history: the step that rejected the request
    startVer,    \* history: version of the target when the request was resolved
    cacheAtLock, \* history: the cache as it was when the lock was last taken
    renderCount  \* history: calls of process() per path

vars == <<fs, now, cache, lock, pc, reqPath, target, ckModified, input, output,
          rejection, response, cause, startVer, cacheAtLock, renderCount>>

reqVars == <<pc, reqPath, target, ckModified, input, output, rejection,
             response, cause, startVer>>

(***************************************************************************)
(* File system                                                             *)
(***************************************************************************)
\* A file's bytes: its version (the tick of its last write) and whether the
\* bytes are valid UTF-8 and readable.
FileKind(p) == IF p = BaseDir THEN "dir"
               ELSE IF p \in DOMAIN fs THEN fs[p].kind ELSE "absent"

\* An is_dir that knows the served directory only.
IsDirBaseOnly(p) == p = BaseDir

IsDir(p) == FileKind(p) = "dir"
Exists(p) == FileKind(p) # "absent"

Join(p, q) == p \o q

\* An extension test that takes any extension for md.
ExtensionAnyMd(p) == IF p = << >> \/ p[Len(p)].ext = NoExt THEN NoExt ELSE "md"

Extension(p) == IF p = << >> THEN NoExt ELSE p[Len(p)].ext
WithExtension(p, e) == IF p = << >> THEN p ELSE [p EXCEPT ![Len(p)].ext = e]

\* The text of a file of version v: one heading.
Text(v) == <<[md |-> "#", text |-> v]>>

(***************************************************************************)
(* Rendering and the reply                                                 *)
(***************************************************************************)
\* process(): markdown_to_html, then the sanitizer; a pure function of the
\* text.  A heading becomes an h1 element with a generated id.
Process(in) == [i \in DOMAIN in |-> [tag |-> "h1", id |-> in[i].text, text |-> in[i].text]]

HTML_HEAD_STR == <<[tag |-> "head"]>>
HTML_TAIL_STR == <<[tag |-> "tail"]>>

\* A reply that leaves the tail fragment out.
IntoResponseNoTail(html) ==
    [status |-> 200, ctype |-> "text/html; charset=UTF-8",
     body |-> HTML_HEAD_STR \o html]

\* Rendered::into_response
IntoResponse(html) ==
    [status |-> 200, ctype |-> "text/html; charset=UTF-8",
     body |-> HTML_HEAD_STR \o html \o HTML_TAIL_STR]

NoResponse == [status |-> 0, ctype |-> "", body |-> << >>]

(***************************************************************************)
(* Cache                                                                   *)
(***************************************************************************)
Unlocked == 0

CacheKey(path, modified) == [path |-> path, modified |-> modified]

\* A lookup that compares the path only.
LookupByPath(c, ck) ==
    IF \E k \in DOMAIN c : k.path = ck.path
    THEN <<c[CHOOSE k \in DOMAIN c : k.path = ck.path]>>
    ELSE << >>

\* A lookup that never finds anything.
LookupNever(c, ck) == << >>

\* cache.get(&ck): Some(s) as <<s>>, None as << >>.  CacheKey derives
\* PartialEq, Eq and Hash: the key is compared on both fields.
Lookup(c, ck) == IF ck \in DOMAIN c THEN <<c[ck]>> ELSE << >>

\* An eviction that empties the cache.
EvictAll(path, c) == [k \in {} |-> << >>]

\* An eviction that removes nothing.
EvictNothing(path, c) == c

\* evict(path, cache): remove every key of that path.
Evict(path, c) == [k \in {x \in DOMAIN c : x.path # path} |-> c[k]]

\* cache.insert(ck, output)
CacheInsert(c, ck, html) == [k \in DOMAIN c \cup {ck} |-> IF k = ck THEN html ELSE c[k]]

EntriesFor(p) == {k \in DOMAIN cache : k.path = p}

\* HashMap::new()
EmptyCache == [k \in {} |-> << >>]

(***************************************************************************)
(* Initial state: the server has started (serve), the cache is empty, no   *)
(* request has arrived; the directory holds any of the layouts below.      *)
(***************************************************************************)
File(kind) == [kind |-> kind, ver |-> 0, valid |-> TRUE, modified |-> 0]

Layouts ==
    {l \in [Nodes -> {"absent", "file", "dir"}] :
        /\ l[Foo] = "dir" \/ l[FooIndexMd] = "absent"
        /\ \A n \in Nodes \ {Foo} : l[n] # "dir"}

Init ==
    /\ \E l \in Layouts : fs = [n \in Nodes |-> File(l[n])]
    /\ now = 0
    /\ cache = EmptyCache
    /\ lock = Unlocked
    /\ pc = [r \in Reqs |-> "idle"]
    /\ reqPath = [r \in Reqs |-> NoPath]
    /\ target = [r \in Reqs |-> NoPath]
    /\ ckModified = [r \in Reqs |-> 0]
    /\ input = [r \in Reqs |-> << >>]
    /\ output = [r \in Reqs |-> << >>]
    /\ rejection = [r \in Reqs |-> "none"]
    /\ response = [r \in Reqs |-> NoResponse]
    /\ cause = [r \in Reqs |-> "none"]
    /\ startVer = [r \in Reqs |-> 0]
    /\ cacheAtLock = EmptyCache
    /\ renderCount = [p \in MdNodes |-> 0]

(***************************************************************************)
(* A request.  Requests are numbered in the order they arrive.             *)
(***************************************************************************)
\* The request leaves the markdown handler with a Rejection: `or` hands it
\* to the static-file handler.
Reject(r, kind, why) ==
    /\ rejection' = [rejection EXCEPT ![r] = kind]
    /\ cause' = [cause EXCEPT ![r] = why]
    /\ pc' = [pc EXCEPT ![r] = "dir"]

\* convert, up to the call of process_file: the path is resolved.
Convert(r, q) ==
    /\ pc[r] = "idle"
    /\ \A s \in Reqs : s < r => pc[s] # "idle"
    /\ reqPath' = [reqPath EXCEPT ![r] = q]
    /\ LET maybe_full_path == Join(BaseDir, q)
           full_path == IF IsDir(maybe_full_path)
                        THEN Join(maybe_full_path, IndexMd)
                        ELSE maybe_full_path
           full_path_ext == WithExtension(full_path, "md")
           Go(path) == /\ target' = [target EXCEPT ![r] = path]
                       /\ startVer' = [startVer EXCEPT ![r] = fs[path].ver]
                       /\ pc' = [pc EXCEPT ![r] = "open"]
                       /\ UNCHANGED <<rejection, cause>>
       IN  IF Extension(full_path) = "md" THEN Go(full_path)
           ELSE IF Extension(full_path) # NoExt
           THEN Reject(r, "NotMarkdown", "extension") /\ UNCHANGED <<target, startVer>>
           ELSE IF Exists(full_path_ext) THEN Go(full_path_ext)
           ELSE Reject(r, "NotFound", "no_md") /\ UNCHANGED <<target, startVer>>
    /\ UNCHANGED <<fs, now, cache, lock, ckModified, input, output, response,
                   cacheAtLock, renderCount>>

\* process_file: tokio::fs::File::open(path); a failure is warp::reject(),
\* which is the not-found rejection.
Open(r) ==
    /\ pc[r] = "open"
    /\ IF FileKind(target[r]) = "file"
       THEN /\ pc' = [pc EXCEPT ![r] = "stat"]
            /\ UNCHANGED <<rejection, cause>>
       ELSE Reject(r, "NotFound", "open")
    /\ UNCHANGED <<fs, now, cache, lock, reqPath, target, ckModified, input,
                   output, response, startVer, cacheAtLock, renderCount>>

\* process_file: file_metadata(&file) on the open file, then the CacheKey.
FileMetadata(r) ==
    /\ pc[r] = "stat"
    /\ ckModified' = [ckModified EXCEPT ![r] = fs[target[r]].modified]
    /\ pc' = [pc EXCEPT ![r] = "lock"]
    /\ UNCHANGED <<fs, now, cache, lock, reqPath, target, input, output,
                   rejection, response, cause, startVer, cacheAtLock, renderCount>>

\* A lock that does not exclude.
LockAlways(r) == TRUE

\* process_file: cache.lock().await
LockFree(r) == lock = Unlocked

LockCache(r) ==
    /\ pc[r] = "lock"
    /\ LockFree(r)
    /\ lock' = r
    /\ cacheAtLock' = cache
    /\ pc' = [pc EXCEPT ![r] = "get"]
    /\ UNCHANGED <<fs, now, cache, reqPath, target, ckModified, input, output,
                   rejection, response, cause, startVer, renderCount>>

\* A key made of the modification time the file has when the key is used.
CkNow(r) == CacheKey(target[r], fs[target[r]].modified)

Ck(r) == CacheKey(target[r], ckModified[r])

\* process_file: match cache.get(&ck); Some(s) returns Rendered(s.clone())
\* and the guard is dropped.
CacheGet(r) ==
    /\ pc[r] = "get"
    /\ IF Lookup(cache, Ck(r)) # << >>
       THEN /\ output' = [output EXCEPT ![r] = Lookup(cache, Ck(r))[1]]
            /\ response' = [response EXCEPT ![r] = IntoResponse(Lookup(cache, Ck(r))[1])]
            /\ lock' = Unlocked
            /\ pc' = [pc EXCEPT ![r] = "done"]
       ELSE /\ pc' = [pc EXCEPT ![r] = "read"]
            /\ UNCHANGED <<output, response, lock>>
    /\ UNCHANGED <<fs, now, cache, reqPath, target, ckModified, input,
                   rejection, cause, startVer, cacheAtLock, renderCount>>

\* A read whose failure returns with the guard still held.
ReadFileKeepLock(r) ==
    /\ pc[r] = "read"
    /\ IF fs[target[r]].valid
       THEN /\ input' = [input EXCEPT ![r] = Text(fs[target[r]].ver)]
            /\ pc' = [pc EXCEPT ![r] = "process"]
            /\ UNCHANGED <<rejection, cause>>
       ELSE /\ Reject(r, "NotFound", "read")
            /\ UNCHANGED input
    /\ UNCHANGED <<fs, now, cache, lock, reqPath, target, ckModified, output,
                   response, startVer, cacheAtLock, renderCount>>

\* process_file: read_file(&mut file, meta.len()).await?  The read goes
\* through the file opened before; Err(_) (a failed read, or bytes that are
\* not UTF-8) is warp::reject() and `?` returns, dropping the guard.
ReadFile(r) ==
    /\ pc[r] = "read"
    /\ IF fs[target[r]].valid
       THEN /\ input' = [input EXCEPT ![r] = Text(fs[target[r]].ver)]
            /\ pc' = [pc EXCEPT ![r] = "process"]
            /\ UNCHANGED <<lock, rejection, cause>>
       ELSE /\ Reject(r, "NotFound", "read")
            /\ lock' = Unlocked
            /\ UNCHANGED input
    /\ UNCHANGED <<fs, now, cache, reqPath, target, ckModified, output,
                   response, startVer, cacheAtLock, renderCount>>

\* process_file: let output = process(&input)
Render(r) ==
    /\ pc[r] = "process"
    /\ output' = [output EXCEPT ![r] = Process(input[r])]
    /\ renderCount' = [renderCount EXCEPT ![target[r]] = @ + 1]
    /\ pc' = [pc EXCEPT ![r] = "evict"]
    /\ UNCHANGED <<fs, now, cache, lock, reqPath, target, ckModified, input,
                   rejection, response, cause, startVer, cacheAtLock>>

\* process_file: evict(path, &mut cache)
EvictEntries(r) ==
    /\ pc[r] = "evict"
    /\ cache' = Evict(target[r], cache)
    /\ pc' = [pc EXCEPT ![r] = "insert"]
    /\ UNCHANGED <<fs, now, lock, reqPath, target, ckModified, input, output,
                   rejection, response, cause, startVer, cacheAtLock, renderCount>>

\* process_file: cache.insert(ck, output.clone()); Ok(Rendered(output)); the
\* guard is dropped on return and the reply is built.
Insert(r) ==
    /\ pc[r] = "insert"
    /\ cache' = CacheInsert(cache, Ck(r), output[r])
    /\ response' = [response EXCEPT ![r] = IntoResponse(output[r])]
    /\ lock' = Unlocked
    /\ cacheAtLock' = cache'
    /\ pc' = [pc EXCEPT ![r] = "done"]
    /\ UNCHANGED <<fs, now, reqPath, target, ckModified, input, output,
                   rejection, cause, startVer, renderCount>>

\* serve: .or(dir).  Any rejection of convert passes the request to
\* warp::fs::dir(base_dir): a directory is served by its index.html, a file
\* by its bytes with 200.  When dir finds nothing, the rejections combine: a
\* custom rejection (NotMarkdown) is unhandled, 500; not-found is 404.
IndexHtml == <<Seg("index", "html")>>

DirFile(q) == IF IsDir(Join(BaseDir, q)) THEN Join(Join(BaseDir, q), IndexHtml)
              ELSE Join(BaseDir, q)

Dir(r) ==
    /\ pc[r] = "dir"
    /\ LET f == DirFile(reqPath[r])
       IN  response' = [response EXCEPT ![r] =
              IF FileKind(f) = "file"
              THEN [status |-> 200, ctype |-> "static",
                    body |-> <<[raw |-> fs[f].ver]>>]
              ELSE [status |-> IF rejection[r] = "NotMarkdown" THEN 500 ELSE 404,
                    ctype |-> "text/plain", body |-> << >>]]
    /\ pc' = [pc EXCEPT ![r] = "done"]
    /\ UNCHANGED <<fs, now, cache, lock, reqPath, target, ckModified, input,
                   output, rejection, cause, startVer, cacheAtLock, renderCount>>

(***************************************************************************)
(* The directory changes under the server.                                 *)
(***************************************************************************)
\* A markdown file is rewritten in place: new bytes (valid text or not), and
\* its modification time advances to the clock.
ModifyFile(p, valid) ==
    /\ fs[p].kind = "file"
    /\ now < MaxTime
    /\ now' = now + 1
    /\ fs' = [fs EXCEPT ![p] = [kind |-> "file", ver |-> now + 1,
                                valid |-> valid, modified |-> now + 1]]
    /\ UNCHANGED <<cache, lock, reqVars, cacheAtLock, renderCount>>

\* A markdown file is unlinked; a request that has it open still reads it.
DeleteFile(p) ==
    /\ fs[p].kind = "file"
    /\ fs' = [fs EXCEPT ![p].kind = "absent"]
    /\ UNCHANGED <<now, cache, lock, reqVars, cacheAtLock, renderCount>>

Next ==
    \/ \E r \in Reqs, q \in ReqPaths : Convert(r, q)
    \/ \E r \in Reqs : Open(r)
    \/ \E r \in Reqs : FileMetadata(r)
    \/ \E r \in Reqs : LockCache(r)
    \/ \E r \in Reqs : CacheGet(r)
    \/ \E r \in Reqs : ReadFile(r)
    \/ \E r \in Reqs : Render(r)
    \/ \E r \in Reqs : EvictEntries(r)
    \/ \E r \in Reqs : Insert(r)
    \/ \E r \in Reqs : Dir(r)
    \/ \E p \in MdNodes, valid \in BOOLEAN : ModifyFile(p, valid)
    \/ \E p \in MdNodes : DeleteFile(p)

Spec == Init /\ [][Next]_vars

\* The runtime polls every task that can make progress, and the tokio Mutex
\* hands the lock to its waiters in turn; arrivals and changes of the
\* directory are under no obligation.
Step(r) ==
    \/ Open(r) \/ FileMetadata(r) \/ LockCache(r) \/ CacheGet(r) \/ ReadFile(r)
    \/ Render(r) \/ EvictEntries(r) \/ Insert(r) \/ Dir(r)

FairSpec == Spec /\ \A r \in Reqs : WF_vars(Step(r))

(***************************************************************************)
(* Properties                                                              *)
(***************************************************************************)
\* A request that was answered by the markdown handler (Ok(Rendered)).
Replied(r) == pc[r] = "done" /\ rejection[r] = "none"

\* The steps of process_file made with the guard alive.
Critical == {"get", "read", "process", "evict", "insert"}

\* The reply built from the file of version v.
ReplyOf(v) == IntoResponse(Process(Text(v)))

\* C1: in every reachable state the cache holds at most one entry per path,
\* every entry belongs to a markdown file, and a request that is about to
\* insert its entry finds no entry left for its path.
C1_OneEntryPerPath ==
    /\ \A k \in DOMAIN cache : k.path \in MdNodes
    /\ \A p \in MdNodes : Cardinality(EntriesFor(p)) <= 1
    /\ \A r \in Reqs : pc[r] = "insert" => EntriesFor(target[r]) = {}

\* C1 witness: two requests for one path were answered under different
\* modification times, and only the later entry is left.
C1_Witness ==
    \E r1, r2 \in Reqs :
        /\ Replied(r1) /\ Replied(r2)
        /\ target[r1] = target[r2]
        /\ ckModified[r1] < ckModified[r2]
        /\ EntriesFor(target[r1]) = {Ck(r2)}

\* C2: a request answered by the markdown handler returns the HTML of a
\* version of its file that is no older than the version in place when the
\* request arrived, and the cache then holds at most one entry for its path.
C2_Coherence ==
    \A r \in Reqs :
        Replied(r) =>
            /\ \E v \in startVer[r]..MaxTime : response[r] = ReplyOf(v)
            /\ Cardinality(EntriesFor(target[r])) <= 1

\* C2 witness: the file was rendered and cached, then it changed, and a
\* request that arrived after the change was answered with the new HTML.
C2_Witness ==
    \E r1, r2 \in Reqs :
        /\ Replied(r1) /\ Replied(r2)
        /\ target[r1] = target[r2]
        /\ response[r1] = ReplyOf(0)
        /\ startVer[r2] = 1
        /\ response[r2] = ReplyOf(1)

\* The file p is as it was at the start: never written, never removed.
Untouched(p) == fs[p] = File("file")

\* C3: as long as a file is unchanged and readable, it is rendered at most
\* once whatever the number of concurrent requests for it, and every
\* request for it that has finished was answered with the same HTML, with
\* one render in total and exactly one entry for the path in the cache.
C3_OneRender ==
    \A p \in MdNodes :
        Untouched(p) =>
            /\ renderCount[p] <= 1
            /\ \A r \in Reqs :
                  (pc[r] = "done" /\ target[r] = p) =>
                      /\ rejection[r] = "none"
                      /\ response[r] = ReplyOf(0)
                      /\ renderCount[p] = 1
                      /\ EntriesFor(p) = {CacheKey(p, 0)}

\* C3 witness: every request asked for the same unchanged file, all have
\* been answered, and the file was rendered once.
C3_Witness ==
    \E p \in MdNodes :
        /\ Untouched(p)
        /\ \A r \in Reqs : Replied(r) /\ target[r] = p
        /\ renderCount[p] = 1

\* C9: at most one request is between taking the lock and dropping it, and
\* that request is the owner of the lock.
C9_MutualExclusion ==
    /\ Cardinality({r \in Reqs : pc[r] \in Critical}) <= 1
    /\ \A r \in Reqs : pc[r] \in Critical <=> lock = r

\* C9 witness: one request has evicted and not yet inserted while another
\* one, for another path, waits for the lock.
C9_Witness ==
    \E r1, r2 \in Reqs :
        /\ pc[r1] = "insert"
        /\ pc[r2] = "lock"
        /\ target[r1] # target[r2]

\* C4: while a file is not modified, the entry stored under its current
\* modification time is never removed from the cache.
C4_CurrentEntryKept ==
    [][\A p \in MdNodes :
          (/\ fs[p].kind = "file"
           /\ fs'[p] = fs[p]
           /\ CacheKey(p, fs[p].modified) \in DOMAIN cache)
          => CacheKey(p, fs[p].modified) \in DOMAIN cache']_vars

\* C5: a request that holds the lock and finds an entry under its own key
\* is answered with that entry's HTML in its next step, without reading the
\* file, without rendering, and with the cache left as it was.
C5_HitFrame ==
    [][\A r \in Reqs :
          (pc[r] = "get" /\ Ck(r) \in DOMAIN cache /\ pc'[r] # "get")
          => /\ pc'[r] = "done"
             /\ rejection'[r] = "none"
             /\ response'[r] = IntoResponse(cache[Ck(r)])
             /\ input'[r] = << >>
             /\ renderCount' = renderCount
             /\ cache' = cache
             /\ lock' = Unlocked]_vars

\* C5 witness: a request was answered from an entry another request had
\* inserted: it read nothing, and the file was rendered once.
C5_Witness ==
    \E r \in Reqs :
        /\ Replied(r)
        /\ input[r] = << >>
        /\ response[r] = ReplyOf(0)
        /\ renderCount[target[r]] = 1

\* C6: up to the eviction the cache is as it was when the lock was taken,
\* and a request whose read fails leaves the markdown handler rejected, with
\* the cache unchanged and the lock free.
C6_FailureFrame ==
    [][\A r \in Reqs :
          /\ pc[r] \in {"get", "read", "process", "evict"} => cache = cacheAtLock
          /\ (pc[r] = "read" /\ ~fs[target[r]].valid /\ pc'[r] # "read")
             => /\ rejection'[r] # "none"
                /\ response'[r] = NoResponse
                /\ cache' = cacheAtLock
                /\ renderCount' = renderCount
                /\ lock' = Unlocked]_vars

\* C6 witness: a request failed at the read and left the markdown handler;
\* the entry cached for its path before the failure is still there and the
\* lock is free.
C6_Witness ==
    \E r \in Reqs :
        /\ cause[r] = "read"
        /\ EntriesFor(target[r]) # {}
        /\ lock = Unlocked

\* C7: a request rejected at the read carries a rejection other than
\* not-found, and the response the client receives is not 200.
C7_DecodingNot200 ==
    \A r \in Reqs :
        (pc[r] = "done" /\ cause[r] = "read") =>
            /\ rejection[r] # "NotFound"
            /\ response[r].status # 200

\* C8: a request the markdown handler rejected as not-found (no .md file
\* for an extension-less path, or a target that cannot be opened) is
\* answered 404.
C8_NotFound404 ==
    \A r \in Reqs :
        (pc[r] = "done" /\ rejection[r] = "NotFound" /\ cause[r] \in {"no_md", "open"})
            => response[r].status = 404

\* C10: a request owns the lock only between taking it and dropping it
\* (never while it waits for it, never once it has been rejected or
\* answered), and under fair scheduling every request that has arrived is
\* eventually answered.
C10_EveryRequestAnswered ==
    /\ [](\A r \in Reqs : lock = r => pc[r] \in Critical)
    /\ \A r \in Reqs : (pc[r] # "idle") ~> (pc[r] = "done")

\* C10 witness: a request holds the lock and is about to fail at the read
\* while another request waits for the lock.
C10_Witness ==
    \E r1, r2 \in Reqs :
        /\ pc[r1] = "read"
        /\ ~fs[target[r1]].valid
        /\ pc[r2] = "lock"

\* The step by which request r arrives and its path is resolved.
Arrives(r) == pc[r] = "idle" /\ pc'[r] # "idle"

\* The path a request for q is resolved against: index.md of the directory
\* when q names the served directory or a directory in it, q otherwise.
FinalPath(q) ==
    IF q = << >> THEN <<Seg("index", "md")>>
    ELSE IF q \in DOMAIN fs /\ fs[q].kind = "dir" THEN q \o <<Seg("index", "md")>>
    ELSE q

\* p with ".md" appended to its last component.
MdAppended(p) == SubSeq(p, 1, Len(p) - 1) \o <<Seg(p[Len(p)].stem, "md")>>

\* C11: when a request arrives, the extension of its final path decides:
\* md, process_file is called with that path; another extension, the
\* request is rejected NotMarkdown and no file is opened; no extension,
\* process_file is called with the path with .md appended when that file
\* exists, and the request is rejected not-found otherwise.
C11_ByExtension ==
    [][\A r \in Reqs :
          Arrives(r) =>
             LET f == FinalPath(reqPath'[r])
                 e == f[Len(f)].ext
             IN  CASE e = "md" ->
                        /\ pc'[r] = "open" /\ target'[r] = f
                        /\ rejection'[r] = "none"
                   [] e = NoExt ->
                        IF MdAppended(f) \in DOMAIN fs /\ fs[MdAppended(f)].kind # "absent"
                        THEN /\ pc'[r] = "open" /\ target'[r] = MdAppended(f)
                             /\ rejection'[r] = "none"
                        ELSE /\ pc'[r] = "dir" /\ target'[r] = NoPath
                             /\ rejection'[r] = "NotFound"
                   [] OTHER ->
                        /\ pc'[r] = "dir" /\ target'[r] = NoPath
                        /\ rejection'[r] = "NotMarkdown"]_vars

\* C11 witness: a request for /foo was rendered from foo.md.
C11_Witness ==
    \E r \in Reqs :
        /\ Replied(r)
        /\ reqPath[r] = Foo
        /\ target[r] = FooMd
        /\ response[r] = ReplyOf(0)

\* C12: a request for / is resolved to index.md of the served directory,
\* and a request whose path is a directory to the index.md of that directory,
\* whatever else the served directory holds.
C12_DirectoryIndex ==
    [][\A r \in Reqs :
          Arrives(r) =>
             /\ reqPath'[r] = << >> =>
                   pc'[r] = "open" /\ target'[r] = <<Seg("index", "md")>>
             /\ (reqPath'[r] \in DOMAIN fs /\ fs[reqPath'[r]].kind = "dir") =>
                   /\ pc'[r] = "open"
                   /\ target'[r] = reqPath'[r] \o <<Seg("index", "md")>>]_vars

\* C12 witness: foo is a directory next to a file foo.md, and a request for
\* /foo was rendered from foo/index.md.
C12_Witness ==
    \E r \in Reqs :
        /\ fs[Foo].kind = "dir"
        /\ fs[FooMd].kind = "file"
        /\ reqPath[r] = Foo
        /\ target[r] = FooIndexMd
        /\ Replied(r)

\* C13: a request whose final path has an extension other than md is
\* rejected NotMarkdown, has no part in the cache (no path handed to
\* process_file, no lock, nothing read), and its response is the one of the
\* static-file handler alone: the file with 200 when it is there, 404 when
\* it is not.
C13_StaticAlone ==
    \A r \in Reqs :
        (pc[r] = "done" /\ cause[r] = "extension") =>
            /\ rejection[r] = "NotMarkdown"
            /\ target[r] = NoPath /\ input[r] = << >> /\ lock # r
            /\ response[r].status =
                  IF FileKind(reqPath[r]) = "file" THEN 200 ELSE 404

\* C14: the step that answers a markdown request, by a hit or after a miss,
\* gives status 200, content type text/html; charset=UTF-8, and as body the
\* head fragment, the HTML stored in the cache under the request's key, and
\* the tail fragment.
C14_ReplyShape ==
    [][\A r \in Reqs :
          (pc[r] # "done" /\ pc'[r] = "done" /\ rejection'[r] = "none") =>
             /\ Ck(r) \in DOMAIN cache'
             /\ response'[r] =
                   [status |-> 200, ctype |-> "text/html; charset=UTF-8",
                    body |-> HTML_HEAD_STR \o cache'[Ck(r)] \o HTML_TAIL_STR]]_vars

\* C14 witness: two requests for one file were answered alike, one after
\* reading and rendering it, the other from the cache.
C14_Witness ==
    \E r1, r2 \in Reqs :
        /\ Replied(r1) /\ Replied(r2)
        /\ Ck(r1) = Ck(r2)
        /\ input[r1] # << >> /\ input[r2] = << >>
        /\ response[r1] = response[r2]
        /\ response[r1].status = 200

\* The eviction step of request r: it has read and rendered its file.
Evicts(r) == pc[r] = "evict" /\ pc'[r] = "insert"

\* C15: an entry leaves the cache only in the eviction step of a request
\* for the entry's path; that step removes every entry of the path and no
\* other; and an entry that stays keeps its HTML.  No other step (a hit, a
\* rejection, a file rewritten or removed) takes an entry away.
C15_OnlyEvictionRemoves ==
    [][/\ \A k \in DOMAIN cache :
             k \notin DOMAIN cache' => \E r \in Reqs : Evicts(r) /\ k.path = target[r]
       /\ \A k \in DOMAIN cache \cap DOMAIN cache' : cache'[k] = cache[k]
       /\ \A r \in Reqs :
             Evicts(r) => DOMAIN cache' = {k \in DOMAIN cache : k.path # target[r]}]_vars

\* C15 witness: a request has just evicted: the entry its path had when it
\* took the lock is gone.
C15_Witness ==
    \E r \in Reqs :
        /\ pc[r] = "insert"
        /\ \E k \in DOMAIN cacheAtLock : k.path = target[r]
        /\ EntriesFor(target[r]) = {}

C17_NoStaleEntry ==
    /\ \A k \in DOMAIN cache :
          \E v \in k.modified..MaxTime : cache[k] = Process(Text(v))
    /\ \A r \in Reqs :
          Replied(r) => \E v \in ckModified[r]..MaxTime : response[r] = ReplyOf(v)

\* C17 witness: a file was rewritten between a request's stat and its read:
\* the entry keyed on the older modification time holds the newer HTML.
C17_Witness ==
    \E k \in DOMAIN cache :
        /\ k.modified = 0
        /\ cache[k] = Process(Text(1))

====
